---- MODULE Spec2Model ----
(***************************************************************************)
(* Device state and control synchronisation of the ESP8266 HomeKit lamp.   *)
(*                                                                         *)
(* Two sketches are modelled side by side; the variable sketch says which  *)
(* firmware is flashed on the device:                                      *)
(*   "prod"  the monochrome production sketch (scenes, fade engine),       *)
(*           listed in RGB_STRIP_GUIDE.md from line 551;                   *)
(*   "rgb"   ESP8266_HomeKit_RGB_Strip.ino (colour, scenes, effects).      *)
(*                                                                         *)
(* A handler of the code is an operator from a machine record (all RAM     *)
(* globals, the settings file, the outputs) to the machine record after    *)
(* the handler has returned; an action applies one handler to the current  *)
(* state.  Hue and saturation are floats in the code and integers here:    *)
(* the handlers only store, compare and copy them.                         *)
(***************************************************************************)
EXTENDS Integers, Sequences, FiniteSets, TLC

VARIABLES
    sketch,                 \* which firmware runs: "prod" or "rgb"
    pc,                     \* "setup": booting; "loop": between handlers;
                            \* "identify": inside lampIdentify's delay()
    blink,                  \* writes done by the running lampIdentify
    millis,                 \* millis(): ms since boot
    lampOn, lampBrightness, lampHue, lampSaturation,
    currentScene, currentEffect,
    targetBrightness, currentPWM, isFading,
    fadeTicker,             \* TRUE while fadeTicker is attached
    buttonPressTime, buttonPressed, longPressHandled, veryLongPressHandled,
    store,                  \* /settings.json on LittleFS
    lampPin,                \* duty last written to LAMP_PIN (prod)
    leds,                   \* what the strip shows (rgb)
    lastEffectUpdate,       \* millis() of the last effect frame (rgb)
    effectHue,              \* uint8_t: start hue of the rainbow (rgb)
    breathLevel,            \* uint8_t: static brightness of updateBreathing
    breathDirection,        \* int8_t: static direction of updateBreathing
    cycle,                  \* observer: events of the current press cycle
    polled,                 \* observer: handleButton ran since the last tick
    fadeFrom,               \* observer: level at which the fade started
    fadeTicks,              \* observer: moving fadeStep ticks of the fade
    resp,                   \* observer: status of the last HTTP response
    hk,                     \* observer: HomeKit notifications, see NoHk
    burst,                  \* observer: edits and file writes of a burst
    phase                   \* observer: how far a scenario has come

vars == <<sketch, pc, blink, millis, lampOn, lampBrightness, lampHue,
          lampSaturation, currentScene, currentEffect, targetBrightness,
          currentPWM, isFading, fadeTicker, buttonPressTime, buttonPressed,
          longPressHandled, veryLongPressHandled, store, lampPin, leds,
          lastEffectUpdate, effectHue, breathLevel, breathDirection,
          cycle, polled, fadeFrom, fadeTicks, resp, hk, burst, phase>>

observers == <<cycle, polled, fadeFrom, fadeTicks, resp, hk, burst, phase>>

-----------------------------------------------------------------------------
(* Program constants *)

DEBOUNCE_DELAY == 50
LONG_PRESS_TIME == 3000
FACTORY_RESET_TIME == 10000
SCENE_BRIGHT == 100
SCENE_READING == 70
SCENE_RELAX == 40
SCENE_NIGHT == 10
MAX_BRIGHTNESS == 255
PWM_RANGE == 1023

(* Bounds of the model *)

PollMs == 1000               \* time between two loop() passes, fine clock
CoarseMs == 5000             \* time between two loop() passes, coarse clock
MaxMillis == 11000           \* the clocks stop here until the next boot

BrightnessInputs == {-20, 55, 150}      \* values a Brightness write carries
HueInputs == {-10, 180, 360}            \* values a Hue write carries
SaturationInputs == {50, 150}           \* values a Saturation write carries
SceneInputs == (-1 .. 9) \cup {99}      \* ids of /scene?id=
EffectInputs == -1 .. 4                 \* ids of /effect?id=

-----------------------------------------------------------------------------
(* Arithmetic of the Arduino core *)

Max(a, b) == IF a >= b THEN a ELSE b
Min(a, b) == IF a <= b THEN a ELSE b
Abs(a) == IF a >= 0 THEN a ELSE 0 - a

\* C integer division truncates toward zero
CDiv(a, b) == IF (a >= 0) = (b > 0) THEN Abs(a) \div Abs(b)
              ELSE 0 - (Abs(a) \div Abs(b))

\* constrain without the lower bound
constrain_noLowerBound(x, lo, hi) == IF x > hi THEN hi ELSE x

constrain(x, lo, hi) == IF x < lo THEN lo ELSE IF x > hi THEN hi ELSE x

map(x, inMin, inMax, outMin, outMax) ==
    CDiv((x - inMin) * (outMax - outMin), inMax - inMin) + outMin

-----------------------------------------------------------------------------
(* The settings file *)

KeysProd == {"lampOn", "brightness", "scene"}
KeysRGB == {"on", "brightness", "hue", "saturation", "scene"}

\* exists: LittleFS.exists(); fault: "open" when the file cannot be opened
\* for reading, "parse" when deserializeJson reports an error; keys: the
\* keys of the JSON document
NoFile == [exists |-> FALSE, fault |-> "none", keys |-> {}, on |-> FALSE,
           brightness |-> 0, hue |-> 0, saturation |-> 0, scene |-> 0]

-----------------------------------------------------------------------------
(* The machine record *)

Black == [kind |-> "black", h |-> 0, s |-> 0, v |-> 0]
Solid(h, s, v) == [kind |-> "solid", h |-> h, s |-> s, v |-> v]

\* What HomeKit was told: the value last notified for each characteristic,
\* and in sent the characteristics notified by the handler that ran last
NoHk == [on |-> FALSE, brightness |-> 0, hue |-> 0, saturation |-> 0,
         sent |-> {}]

\* homekit_characteristic_notify(ch, value)
Notify(m, ch, value) ==
    [m EXCEPT !.hk = [[@ EXCEPT ![ch] = value] EXCEPT !.sent = @ \cup {ch}]]

Cur == [pc |-> pc, blink |-> blink, millis |-> millis,
        lampOn |-> lampOn, lampBrightness |-> lampBrightness,
        lampHue |-> lampHue, lampSaturation |-> lampSaturation,
        currentScene |-> currentScene, currentEffect |-> currentEffect,
        targetBrightness |-> targetBrightness, currentPWM |-> currentPWM,
        isFading |-> isFading, fadeTicker |-> fadeTicker,
        buttonPressTime |-> buttonPressTime, buttonPressed |-> buttonPressed,
        longPressHandled |-> longPressHandled,
        veryLongPressHandled |-> veryLongPressHandled,
        store |-> store, lampPin |-> lampPin, leds |-> leds,
        lastEffectUpdate |-> lastEffectUpdate, effectHue |-> effectHue,
        breathLevel |-> breathLevel, breathDirection |-> breathDirection,
        resp |-> resp,
        hk |-> [hk EXCEPT !.sent = {}], writes |-> burst.writes]

Commit(m) ==
    /\ pc' = m.pc
    /\ blink' = m.blink
    /\ millis' = m.millis
    /\ lampOn' = m.lampOn
    /\ lampBrightness' = m.lampBrightness
    /\ lampHue' = m.lampHue
    /\ lampSaturation' = m.lampSaturation
    /\ currentScene' = m.currentScene
    /\ currentEffect' = m.currentEffect
    /\ targetBrightness' = m.targetBrightness
    /\ currentPWM' = m.currentPWM
    /\ isFading' = m.isFading
    /\ fadeTicker' = m.fadeTicker
    /\ buttonPressTime' = m.buttonPressTime
    /\ buttonPressed' = m.buttonPressed
    /\ longPressHandled' = m.longPressHandled
    /\ veryLongPressHandled' = m.veryLongPressHandled
    /\ store' = m.store
    /\ lampPin' = m.lampPin
    /\ leds' = m.leds
    /\ lastEffectUpdate' = m.lastEffectUpdate
    /\ effectHue' = m.effectHue
    /\ breathLevel' = m.breathLevel
    /\ breathDirection' = m.breathDirection
    /\ sketch' = sketch

\* The globals as their initialisers leave them at every boot; the settings
\* file f survives the boot.
Globals(f) ==
    [pc |-> "setup", blink |-> 0, millis |-> 0,
     lampOn |-> FALSE, lampBrightness |-> 100,
     lampHue |-> 0, lampSaturation |-> 0,
     currentScene |-> 0, currentEffect |-> 0,
     targetBrightness |-> 100, currentPWM |-> 0,
     isFading |-> FALSE, fadeTicker |-> FALSE,
     buttonPressTime |-> 0, buttonPressed |-> FALSE,
     longPressHandled |-> FALSE, veryLongPressHandled |-> FALSE,
     store |-> f, lampPin |-> PWM_RANGE, leds |-> Black,
     lastEffectUpdate |-> 0, effectHue |-> 0,
     breathLevel |-> 0, breathDirection |-> 1, resp |-> 0,
     hk |-> NoHk, writes |-> 0]

-----------------------------------------------------------------------------
(* HTTP request arguments: has = server.hasArg(name); num says whether the   *)
(* text is a number, val is that number.                                     *)

Arg(v) == [has |-> TRUE, num |-> TRUE, val |-> v]
NoArg == [has |-> FALSE, num |-> FALSE, val |-> 0]
BadArg == [has |-> TRUE, num |-> FALSE, val |-> 0]

\* String::toInt() yields 0 for a text that does not start with a number
toInt(a) == IF a.num THEN a.val ELSE 0

-----------------------------------------------------------------------------
(* Production sketch: persistent storage *)

saveSettings_prod(m) ==
    [m EXCEPT !.store = [exists |-> TRUE, fault |-> "none",
                         keys |-> KeysProd,
                         on |-> m.lampOn, brightness |-> m.lampBrightness,
                         hue |-> 0, saturation |-> 0,
                         scene |-> m.currentScene],
              !.writes = @ + 1]

\* loadSettings without the test of the DeserializationError
loadSettings_prod_noErrorCheck(m) ==
    IF ~m.store.exists THEN m
    ELSE IF m.store.fault = "open" THEN m
    ELSE [m EXCEPT !.lampOn = m.store.on,
                   !.lampBrightness = m.store.brightness,
                   !.currentScene = m.store.scene,
                   !.targetBrightness = m.store.brightness]

loadSettings_prod(m) ==
    IF ~m.store.exists THEN m
    ELSE IF m.store.fault = "open" THEN m
    ELSE IF m.store.fault = "parse" THEN m
    ELSE LET b == IF "brightness" \in m.store.keys
                  THEN m.store.brightness ELSE 100
         IN [m EXCEPT
               !.lampOn = IF "lampOn" \in m.store.keys
                          THEN m.store.on ELSE FALSE,
               !.lampBrightness = b,
               !.currentScene = IF "scene" \in m.store.keys
                                THEN m.store.scene ELSE 0,
               !.targetBrightness = b]

\* factoryReset restarting without LittleFS.format()
factoryReset_keepFile(m) == Globals(m.store)

\* LittleFS.format(), wifiManager.resetSettings(), ESP.restart(): the globals
\* are initialised again and setup() runs next
factoryReset(m) == Globals(NoFile)

-----------------------------------------------------------------------------
(* Production sketch: lamp control with smooth fading *)

Duty(level) == PWM_RANGE - map(level, 0, 100, 0, PWM_RANGE)

\* fadeStep with a fixed step of 10 and no stop at the target
fadeStep_fixedStep(m) ==
    IF ~m.isFading THEN m
    ELSE LET c == IF m.currentPWM < m.targetBrightness
                  THEN m.currentPWM + 10
                  ELSE IF m.currentPWM > m.targetBrightness
                  THEN m.currentPWM - 10
                  ELSE m.currentPWM
             done == (m.currentPWM < m.targetBrightness
                        /\ c >= m.targetBrightness)
                     \/ (m.currentPWM > m.targetBrightness
                        /\ c <= m.targetBrightness)
         IN [m EXCEPT !.currentPWM = c,
                      !.isFading = ~done, !.fadeTicker = ~done,
                      !.lampPin = Duty(c)]

\* fadeStep with the step (target - current) / 10, without max(1, ...)
fadeStep_noMinimumStep(m) ==
    IF ~m.isFading THEN m
    ELSE LET c == m.currentPWM
                  + CDiv(m.targetBrightness - m.currentPWM, 10)
             done == c = m.targetBrightness
                     /\ m.currentPWM # m.targetBrightness
         IN [m EXCEPT !.currentPWM = c,
                      !.isFading = ~done, !.fadeTicker = ~done,
                      !.lampPin = Duty(c)]

fadeStep(m) ==
    IF ~m.isFading THEN m
    ELSE LET up == m.currentPWM
                     + Max(1, CDiv(m.targetBrightness - m.currentPWM, 10))
             down == m.currentPWM
                     - Max(1, CDiv(m.currentPWM - m.targetBrightness, 10))
             m1 == IF m.currentPWM < m.targetBrightness
                   THEN IF up >= m.targetBrightness
                        THEN [m EXCEPT !.currentPWM = m.targetBrightness,
                                       !.isFading = FALSE,
                                       !.fadeTicker = FALSE]
                        ELSE [m EXCEPT !.currentPWM = up]
                   ELSE IF m.currentPWM > m.targetBrightness
                   THEN IF down <= m.targetBrightness
                        THEN [m EXCEPT !.currentPWM = m.targetBrightness,
                                       !.isFading = FALSE,
                                       !.fadeTicker = FALSE]
                        ELSE [m EXCEPT !.currentPWM = down]
                   ELSE m
         IN [m1 EXCEPT !.lampPin = Duty(m1.currentPWM)]

\* setLampBrightness without constrain()
setLampBrightness_noConstrain(m, brightness, smooth) ==
    LET t == IF m.lampOn THEN brightness ELSE 0
        m1 == [m EXCEPT !.lampBrightness = brightness,
                        !.targetBrightness = t]
    IN IF smooth
       THEN IF ~m1.isFading
            THEN [m1 EXCEPT !.isFading = TRUE, !.fadeTicker = TRUE]
            ELSE m1
       ELSE [m1 EXCEPT !.currentPWM = t, !.lampPin = Duty(t),
                       !.isFading = FALSE, !.fadeTicker = FALSE]

\* setLampBrightness leaving the target of a fade in progress alone
setLampBrightness_finishFirst(m, brightness, smooth) ==
    LET b == constrain(brightness, 0, 100)
        t == IF m.lampOn THEN b ELSE 0
        m1 == [m EXCEPT !.lampBrightness = b, !.targetBrightness = t]
    IN IF smooth
       THEN IF ~m1.isFading
            THEN [m1 EXCEPT !.isFading = TRUE, !.fadeTicker = TRUE]
            ELSE [m EXCEPT !.lampBrightness = b]
       ELSE [m1 EXCEPT !.currentPWM = t, !.lampPin = Duty(t),
                       !.isFading = FALSE, !.fadeTicker = FALSE]

\* setLampBrightness taking the level as the target whether on or off
setLampBrightness_ignoreOn(m, brightness, smooth) ==
    LET b == constrain(brightness, 0, 100)
        m1 == [m EXCEPT !.lampBrightness = b, !.targetBrightness = b]
    IN IF smooth
       THEN IF ~m1.isFading
            THEN [m1 EXCEPT !.isFading = TRUE, !.fadeTicker = TRUE]
            ELSE m1
       ELSE [m1 EXCEPT !.currentPWM = b, !.lampPin = Duty(b),
                       !.isFading = FALSE, !.fadeTicker = FALSE]

setLampBrightness(m, brightness, smooth) ==
    LET b == constrain(brightness, 0, 100)
        t == IF m.lampOn THEN b ELSE 0
        m1 == [m EXCEPT !.lampBrightness = b, !.targetBrightness = t]
    IN IF smooth
       THEN IF ~m1.isFading
            THEN [m1 EXCEPT !.isFading = TRUE, !.fadeTicker = TRUE]
            ELSE m1
       ELSE [m1 EXCEPT !.currentPWM = t, !.lampPin = Duty(t),
                       !.isFading = FALSE, !.fadeTicker = FALSE]

\* updateLamp without saveSettings()
updateLamp_noSave(m) ==
    LET m1 == [m EXCEPT !.targetBrightness =
                           IF m.lampOn THEN m.lampBrightness ELSE 0]
    IN setLampBrightness(m1, m1.lampBrightness, TRUE)

updateLamp(m) ==
    LET m1 == [m EXCEPT !.targetBrightness =
                           IF m.lampOn THEN m.lampBrightness ELSE 0]
    IN saveSettings_prod(setLampBrightness(m1, m1.lampBrightness, TRUE))

-----------------------------------------------------------------------------
(* Production sketch: scene management *)

SceneBrightness(scene) ==
    CASE scene = 1 -> SCENE_BRIGHT
      [] scene = 2 -> SCENE_READING
      [] scene = 3 -> SCENE_RELAX
      [] scene = 4 -> SCENE_NIGHT

\* applyScene without the call of setLampBrightness
applyScene_prod_noFade(m, scene) ==
    LET m1 == IF scene \in 1..4
              THEN [m EXCEPT !.currentScene = scene,
                             !.lampBrightness = SceneBrightness(scene)]
              ELSE [m EXCEPT !.currentScene = 0]
        m2 == IF m1.lampOn
              THEN Notify(m1, "brightness", m1.lampBrightness)
              ELSE m1
    IN saveSettings_prod(m2)

applyScene_prod(m, scene) ==
    LET m1 == IF scene \in 1..4
              THEN [m EXCEPT !.currentScene = scene,
                             !.lampBrightness = SceneBrightness(scene)]
              ELSE [m EXCEPT !.currentScene = 0]
        m2 == IF m1.lampOn
              THEN Notify(setLampBrightness(m1, m1.lampBrightness, TRUE),
                          "brightness", m1.lampBrightness)
              ELSE m1
    IN saveSettings_prod(m2)

\* cycleScene going from the last scene to scene 1, past Custom
cycleScene_prod_skipCustom(m) ==
    LET nextScene == (m.currentScene % 4) + 1
    IN applyScene_prod([m EXCEPT !.lampOn = TRUE], nextScene)

cycleScene_prod(m) ==
    LET nextScene == (m.currentScene + 1) % 5
    IN applyScene_prod([m EXCEPT !.lampOn = TRUE], nextScene)

-----------------------------------------------------------------------------
(* Button handling.  level is digitalRead(BUTTON_PIN) == LOW at this poll.   *)

\* millis() - buttonPressTime in unsigned long.  millis() does not wrap
\* before MaxMillis, and buttonPressTime is an earlier millis() of this boot.
pressDuration(m) == m.millis - m.buttonPressTime

\* handleButton toggling on every release edge
ButtonBranch_anyRelease(m, level, guardVeryLong) ==
    IF level /\ ~m.buttonPressed THEN "press"
    ELSE IF ~level /\ m.buttonPressed THEN "short"
    ELSE IF m.buttonPressed
    THEN IF pressDuration(m) >= FACTORY_RESET_TIME /\ ~m.veryLongPressHandled
         THEN "verylong"
         ELSE IF /\ pressDuration(m) >= LONG_PRESS_TIME
                 /\ ~m.longPressHandled
                 /\ (guardVeryLong => ~m.veryLongPressHandled)
         THEN "long" ELSE "held"
    ELSE "idle"

\* handleButton taking the factory-reset arm from LONG_PRESS_TIME on
ButtonBranch_resetOnLong(m, level, guardVeryLong) ==
    IF level /\ ~m.buttonPressed THEN "press"
    ELSE IF ~level /\ m.buttonPressed
    THEN IF /\ pressDuration(m) < LONG_PRESS_TIME
            /\ ~m.longPressHandled
            /\ ~m.veryLongPressHandled
         THEN "short" ELSE "release"
    ELSE IF m.buttonPressed
    THEN IF pressDuration(m) >= LONG_PRESS_TIME /\ ~m.veryLongPressHandled
         THEN "verylong"
         ELSE "held"
    ELSE "idle"

\* The branch of handleButton that runs
ButtonBranch(m, level, guardVeryLong) ==
    IF level /\ ~m.buttonPressed THEN "press"
    ELSE IF ~level /\ m.buttonPressed
    THEN IF /\ pressDuration(m) < LONG_PRESS_TIME
            /\ ~m.longPressHandled
            /\ ~m.veryLongPressHandled
         THEN "short" ELSE "release"
    ELSE IF m.buttonPressed
    THEN IF pressDuration(m) >= FACTORY_RESET_TIME /\ ~m.veryLongPressHandled
         THEN "verylong"
         ELSE IF /\ pressDuration(m) >= LONG_PRESS_TIME
                 /\ ~m.longPressHandled
                 /\ (guardVeryLong => ~m.veryLongPressHandled)
         THEN "long" ELSE "held"
    ELSE "idle"

handleButton_prod(m, level) ==
    LET b == ButtonBranch(m, level, TRUE)
    IN CASE b = "press" ->
              [m EXCEPT !.buttonPressed = TRUE,
                        !.buttonPressTime = m.millis,
                        !.longPressHandled = FALSE,
                        !.veryLongPressHandled = FALSE]
         [] b = "short" ->
              [Notify(updateLamp([m EXCEPT !.lampOn = ~m.lampOn]),
                      "on", ~m.lampOn)
                 EXCEPT !.buttonPressed = FALSE]
         [] b = "release" -> [m EXCEPT !.buttonPressed = FALSE]
         [] b = "verylong" ->
              factoryReset([m EXCEPT !.veryLongPressHandled = TRUE])
         [] b = "long" ->
              cycleScene_prod([m EXCEPT !.longPressHandled = TRUE])
         [] OTHER -> m

-----------------------------------------------------------------------------
(* Production sketch: HomeKit callbacks *)

\* lampIdentify up to its first delay(200): digitalWrite(LAMP_PIN, LOW)
identifyBegin_prod(m) ==
    [m EXCEPT !.pc = "identify", !.blink = 1, !.lampPin = 0]

\* lampIdentify from one delay(200) to the next: the next digitalWrite, or,
\* after the third HIGH, updateLamp() and the return to loop()
identifyResume_prod(m) ==
    IF m.blink < 6
    THEN [m EXCEPT !.blink = m.blink + 1,
                   !.lampPin = IF m.blink % 2 = 1 THEN PWM_RANGE ELSE 0]
    ELSE [updateLamp(m) EXCEPT !.pc = "loop", !.blink = 0]

\* lampOnSet without updateLamp()
lampOnSet_prod_noUpdate(m, value) == [m EXCEPT !.lampOn = value]

\* lampOnSet switching on at full brightness
lampOnSet_prod_fullBrightness(m, value) ==
    updateLamp([m EXCEPT !.lampOn = value,
                         !.lampBrightness = IF value THEN 100 ELSE @])

lampOnSet_prod(m, value) == updateLamp([m EXCEPT !.lampOn = value])

lampBrightnessSet_prod(m, value) ==
    updateLamp([m EXCEPT !.lampBrightness = value, !.currentScene = 0])

-----------------------------------------------------------------------------
(* Production sketch: web server *)

handleLamp_prod(m, a) ==
    IF a.has
    THEN [Notify(updateLamp([m EXCEPT !.lampOn = (toInt(a) = 1)]),
                 "on", toInt(a) = 1) EXCEPT !.resp = 200]
    ELSE [m EXCEPT !.resp = 400]

handleBrightness(m, a) ==
    IF a.has
    THEN LET m1 == [m EXCEPT
                      !.lampBrightness = constrain(toInt(a), 0, 100),
                      !.currentScene = 0]
             m2 == IF m1.lampOn
                   THEN setLampBrightness(m1, m1.lampBrightness, TRUE)
                   ELSE m1
         IN [saveSettings_prod(Notify(m2, "brightness", m2.lampBrightness))
               EXCEPT !.resp = 200]
    ELSE [m EXCEPT !.resp = 400]

handleScene_prod(m, a) ==
    IF a.has
    THEN LET m1 == applyScene_prod([m EXCEPT !.lampOn = TRUE], toInt(a))
         IN [Notify(Notify(m1, "on", m1.lampOn),
                    "brightness", m1.lampBrightness) EXCEPT !.resp = 200]
    ELSE [m EXCEPT !.resp = 400]

\* The JSON object that /status is answered with
handleStatus(m) ==
    [on |-> m.lampOn, brightness |-> m.lampBrightness,
     scene |-> m.currentScene]

-----------------------------------------------------------------------------
(* Production sketch: setup() *)

setup_prod(m) ==
    LET m1 == [loadSettings_prod(m) EXCEPT !.lampPin = PWM_RANGE]
    IN [setLampBrightness(m1, m1.lampBrightness, FALSE) EXCEPT !.pc = "loop"]

-----------------------------------------------------------------------------
(* RGB sketch: scene table, scenes[0..8] as <<hue, saturation, brightness>> *)

scenes == << [hue |-> 0,   saturation |-> 0,   brightness |-> 100],
             [hue |-> 30,  saturation |-> 20,  brightness |-> 100],
             [hue |-> 200, saturation |-> 10,  brightness |-> 100],
             [hue |-> 120, saturation |-> 100, brightness |-> 100],
             [hue |-> 200, saturation |-> 100, brightness |-> 80],
             [hue |-> 40,  saturation |-> 30,  brightness |-> 70],
             [hue |-> 260, saturation |-> 60,  brightness |-> 40],
             [hue |-> 240, saturation |-> 100, brightness |-> 10],
             [hue |-> 340, saturation |-> 80,  brightness |-> 30] >>

NumScenes == Len(scenes)          \* sizeof(scenes) / sizeof(scenes[0])

-----------------------------------------------------------------------------
(* RGB sketch: persistent storage *)

\* saveSettings writing the production sketch's key "lampOn" for lampOn
saveSettings_rgb_lampOnKey(m) ==
    [m EXCEPT !.store = [exists |-> TRUE, fault |-> "none",
                         keys |-> (KeysRGB \ {"on"}) \cup {"lampOn"},
                         on |-> m.lampOn, brightness |-> m.lampBrightness,
                         hue |-> m.lampHue, saturation |-> m.lampSaturation,
                         scene |-> m.currentScene],
              !.writes = @ + 1]

saveSettings_rgb(m) ==
    [m EXCEPT !.store = [exists |-> TRUE, fault |-> "none",
                         keys |-> KeysRGB,
                         on |-> m.lampOn, brightness |-> m.lampBrightness,
                         hue |-> m.lampHue, saturation |-> m.lampSaturation,
                         scene |-> m.currentScene],
              !.writes = @ + 1]

loadSettings_rgb(m) ==
    IF ~m.store.exists THEN m
    ELSE IF m.store.fault = "open" THEN m
    ELSE IF m.store.fault = "parse" THEN m
    ELSE [m EXCEPT
            !.lampOn = IF "on" \in m.store.keys THEN m.store.on ELSE FALSE,
            !.lampBrightness = IF "brightness" \in m.store.keys
                               THEN m.store.brightness ELSE 100,
            !.lampHue = IF "hue" \in m.store.keys THEN m.store.hue ELSE 0,
            !.lampSaturation = IF "saturation" \in m.store.keys
                               THEN m.store.saturation ELSE 0,
            !.currentScene = IF "scene" \in m.store.keys
                             THEN m.store.scene ELSE 0]

-----------------------------------------------------------------------------
(* RGB sketch: LED control, effects selection, scenes *)

updateLED(m) ==
    saveSettings_rgb(
        [m EXCEPT !.leds = IF m.lampOn
                           THEN Solid(m.lampHue, m.lampSaturation,
                                      m.lampBrightness)
                           ELSE Black])

\* setColor without currentScene = 0
setColor_keepScene(m, hue, saturation, brightness) ==
    updateLED([m EXCEPT !.lampHue = hue, !.lampSaturation = saturation,
                        !.lampBrightness = brightness,
                        !.currentEffect = 0])

setColor(m, hue, saturation, brightness) ==
    updateLED([m EXCEPT !.lampHue = hue, !.lampSaturation = saturation,
                        !.lampBrightness = brightness,
                        !.currentScene = 0, !.currentEffect = 0])

\* The frames of the three effects.  A frame of the rainbow is told by its
\* start hue, a frame of the fire by the random heat r it drew, a frame of
\* the breathing by the colour and the FastLED brightness.
updateRainbow(m) ==
    [m EXCEPT !.leds = [kind |-> "rainbow", h |-> m.effectHue,
                        s |-> 255, v |-> 255],
              !.effectHue = (m.effectHue + 1) % 256]

updateFire(m, r) ==
    [m EXCEPT !.leds = [kind |-> "fire", h |-> 0, s |-> 255, v |-> r]]

\* brightness += direction * 5 in uint8_t; direction *= -1 at the ends
updateBreathing(m) ==
    LET b == (m.breathLevel + m.breathDirection * 5) % 256
    IN [m EXCEPT !.breathLevel = b,
                 !.breathDirection = IF b >= 250 \/ b <= 5 THEN -@ ELSE @,
                 !.leds = [kind |-> "breathing", h |-> m.lampHue,
                           s |-> m.lampSaturation, v |-> b]]

\* r is what random(0, 255) returns to updateFire
updateEffect(m, r) ==
    IF ~m.lampOn \/ m.currentEffect = 0 THEN m
    ELSE IF m.millis - m.lastEffectUpdate < 50 THEN m
    ELSE LET m1 == [m EXCEPT !.lastEffectUpdate = m.millis]
         IN CASE m.currentEffect = 1 -> updateRainbow(m1)
              [] m.currentEffect = 2 -> updateFire(m1, r)
              [] m.currentEffect = 3 -> updateBreathing(m1)
              [] OTHER -> m1

\* setEffect without lampOn = true
setEffect_keepOff(m, effect) ==
    LET m1 == [m EXCEPT !.currentEffect = effect]
    IN IF effect = 0 THEN updateLED(m1) ELSE m1

setEffect(m, effect) ==
    LET m1 == [m EXCEPT !.currentEffect = effect, !.lampOn = TRUE]
    IN IF effect = 0 THEN updateLED(m1) ELSE m1

\* The four notifications that applyScene and handleColor send
NotifyAll(m) ==
    Notify(Notify(Notify(Notify(m, "on", m.lampOn),
                         "brightness", m.lampBrightness),
                  "hue", m.lampHue),
           "saturation", m.lampSaturation)

\* applyScene without the line that turns a lamp on that was off
applyScene_rgb_keepOff(m, scene) ==
    IF scene < 0 \/ scene >= NumScenes THEN m
    ELSE NotifyAll(
           updateLED([m EXCEPT !.currentScene = scene,
                               !.currentEffect = 0,
                               !.lampHue = scenes[scene + 1].hue,
                               !.lampSaturation = scenes[scene + 1].saturation,
                               !.lampBrightness =
                                   scenes[scene + 1].brightness]))

\* applyScene taking an id outside the table as scene 0
applyScene_rgb_clampCustom(m, scene) ==
    LET id == IF scene < 0 \/ scene >= NumScenes THEN 0 ELSE scene
    IN NotifyAll(
         updateLED([m EXCEPT !.currentScene = id,
                             !.currentEffect = 0,
                             !.lampHue = scenes[id + 1].hue,
                             !.lampSaturation = scenes[id + 1].saturation,
                             !.lampBrightness = scenes[id + 1].brightness,
                             !.lampOn = TRUE]))

applyScene_rgb(m, scene) ==
    IF scene < 0 \/ scene >= NumScenes THEN m
    ELSE NotifyAll(
           updateLED([m EXCEPT !.currentScene = scene,
                               !.currentEffect = 0,
                               !.lampHue = scenes[scene + 1].hue,
                               !.lampSaturation = scenes[scene + 1].saturation,
                               !.lampBrightness = scenes[scene + 1].brightness,
                               !.lampOn = TRUE]))

cycleScene_rgb(m) ==
    LET nextScene == (m.currentScene + 1) % NumScenes
    IN applyScene_rgb(m, nextScene)

handleButton_rgb(m, level) ==
    LET b == ButtonBranch(m, level, FALSE)
    IN CASE b = "press" ->
              [m EXCEPT !.buttonPressed = TRUE,
                        !.buttonPressTime = m.millis,
                        !.longPressHandled = FALSE,
                        !.veryLongPressHandled = FALSE]
         [] b = "short" ->
              [Notify(updateLED([m EXCEPT !.lampOn = ~m.lampOn,
                                          !.currentEffect = 0]),
                      "on", ~m.lampOn)
                 EXCEPT !.buttonPressed = FALSE]
         [] b = "release" -> [m EXCEPT !.buttonPressed = FALSE]
         [] b = "verylong" ->
              factoryReset([m EXCEPT !.veryLongPressHandled = TRUE])
         [] b = "long" ->
              cycleScene_rgb([m EXCEPT !.longPressHandled = TRUE])
         [] OTHER -> m

-----------------------------------------------------------------------------
(* RGB sketch: HomeKit callbacks *)

\* Three white/black blinks, then updateLED().  Nothing that this model
\* follows runs inside the delays of the RGB sketch (it has no fade ticker),
\* so the handler is one step.
lampIdentify_rgb(m) == updateLED([m EXCEPT !.leds = Black])

\* lampOnSet without currentEffect = 0
lampOnSet_rgb_keepEffect(m, value) == updateLED([m EXCEPT !.lampOn = value])

lampOnSet_rgb(m, value) ==
    updateLED([m EXCEPT !.lampOn = value, !.currentEffect = 0])

lampBrightnessSet_rgb(m, value) ==
    updateLED([m EXCEPT !.lampBrightness = value,
                        !.currentScene = 0, !.currentEffect = 0])

lampHueSet(m, value) ==
    updateLED([m EXCEPT !.lampHue = value,
                        !.currentScene = 0, !.currentEffect = 0])

lampSaturationSet(m, value) ==
    updateLED([m EXCEPT !.lampSaturation = value,
                        !.currentScene = 0, !.currentEffect = 0])

-----------------------------------------------------------------------------
(* RGB sketch: web server *)

handleLamp_rgb(m, a) ==
    IF a.has
    THEN [Notify(updateLED([m EXCEPT !.lampOn = (toInt(a) = 1),
                                     !.currentEffect = 0]),
                 "on", toInt(a) = 1) EXCEPT !.resp = 200]
    ELSE [m EXCEPT !.resp = 400]

\* handleColor testing only hasArg("h")
handleColor_onlyH(m, h, s, b) ==
    IF h.has
    THEN [NotifyAll([setColor(m, toInt(h), toInt(s), toInt(b))
                       EXCEPT !.lampOn = TRUE])
            EXCEPT !.resp = 200]
    ELSE [m EXCEPT !.resp = 400]

\* toFloat() of h and s, toInt() of b
handleColor(m, h, s, b) ==
    IF h.has /\ s.has /\ b.has
    THEN [NotifyAll([setColor(m, toInt(h), toInt(s), toInt(b))
                       EXCEPT !.lampOn = TRUE])
            EXCEPT !.resp = 200]
    ELSE [m EXCEPT !.resp = 400]

handleScene_rgb(m, a) ==
    IF a.has THEN [applyScene_rgb(m, toInt(a)) EXCEPT !.resp = 200]
    ELSE [m EXCEPT !.resp = 400]

handleEffect(m, a) ==
    IF a.has THEN [setEffect(m, toInt(a)) EXCEPT !.resp = 200]
    ELSE [m EXCEPT !.resp = 400]

-----------------------------------------------------------------------------
(* RGB sketch: setup() *)

setup_rgb(m) == [updateLED(loadSettings_rgb(m)) EXCEPT !.pc = "loop"]

-----------------------------------------------------------------------------
(* Requests of the environment *)

Args(S) == {NoArg, BadArg} \cup {Arg(v) : v \in S}

ColorRequests ==
    {<<Arg(h), Arg(s), Arg(b)>> :
        h \in HueInputs, s \in SaturationInputs, b \in BrightnessInputs}
    \cup {<<NoArg, Arg(50), Arg(55)>>, <<Arg(180), NoArg, Arg(55)>>,
          <<Arg(180), Arg(50), NoArg>>, <<NoArg, NoArg, NoArg>>}

-----------------------------------------------------------------------------
(* One handler applied to the current state.  loop() runs its handlers one  *)
(* after the other, so a handler starts only between two handlers.          *)

Running(sk) == sketch = sk /\ pc = "loop"

\* One handler of sketch sk runs on a pass of loop() and leaves machine m
Do(sk, m) == Running(sk) /\ Commit(m)

\* d ms pass between two passes of loop()
Tick(d) ==
    /\ pc = "loop"
    /\ millis + d <= MaxMillis
    /\ Commit([Cur EXCEPT !.millis = millis + d])

\* fadeTicker fires: between two handlers of loop(), or inside a delay()
FadeStepStep ==
    /\ sketch = "prod" /\ pc \in {"loop", "identify"}
    /\ fadeTicker
    /\ Commit(fadeStep(Cur))

-----------------------------------------------------------------------------
(* Actions of the device under all three control surfaces; the observers    *)
(* stay as they are.                                                        *)

\* Power is lost and comes back: RAM is initialised, the file system stays
PowerLoss ==
    pc # "setup" /\ Commit(Globals(store)) /\ UNCHANGED observers
Setup_prod ==
    /\ sketch = "prod" /\ pc = "setup"
    /\ Commit(setup_prod(Cur))
    /\ UNCHANGED observers
Setup_rgb ==
    /\ sketch = "rgb" /\ pc = "setup"
    /\ Commit(setup_rgb(Cur))
    /\ UNCHANGED observers
CoarseTick == Tick(CoarseMs) /\ UNCHANGED observers
FadeStep == FadeStepStep /\ UNCHANGED observers

HandleButton_prod ==
    \E level \in BOOLEAN :
        Do("prod", handleButton_prod(Cur, level)) /\ UNCHANGED observers
IdentifyBegin_prod ==
    Do("prod", identifyBegin_prod(Cur)) /\ UNCHANGED observers
IdentifyResume_prod ==
    /\ sketch = "prod" /\ pc = "identify"
    /\ Commit(identifyResume_prod(Cur))
    /\ UNCHANGED observers
LampOnSet_prod ==
    \E v \in BOOLEAN :
        Do("prod", lampOnSet_prod(Cur, v)) /\ UNCHANGED observers
LampBrightnessSet_prod ==
    \E v \in BrightnessInputs :
        Do("prod", lampBrightnessSet_prod(Cur, v)) /\ UNCHANGED observers
HandleLamp_prod ==
    \E a \in Args({0, 1}) :
        Do("prod", handleLamp_prod(Cur, a)) /\ UNCHANGED observers
HandleBrightness ==
    \E a \in Args(BrightnessInputs) :
        Do("prod", handleBrightness(Cur, a)) /\ UNCHANGED observers
HandleScene_prod ==
    \E a \in Args(SceneInputs) :
        Do("prod", handleScene_prod(Cur, a)) /\ UNCHANGED observers

HandleButton_rgb ==
    \E level \in BOOLEAN :
        Do("rgb", handleButton_rgb(Cur, level)) /\ UNCHANGED observers
LampIdentify_rgb ==
    Do("rgb", lampIdentify_rgb(Cur)) /\ UNCHANGED observers
LampOnSet_rgb ==
    \E v \in BOOLEAN :
        Do("rgb", lampOnSet_rgb(Cur, v)) /\ UNCHANGED observers
LampBrightnessSet_rgb ==
    \E v \in BrightnessInputs :
        Do("rgb", lampBrightnessSet_rgb(Cur, v)) /\ UNCHANGED observers
LampHueSet ==
    \E v \in HueInputs :
        Do("rgb", lampHueSet(Cur, v)) /\ UNCHANGED observers
LampSaturationSet ==
    \E v \in SaturationInputs :
        Do("rgb", lampSaturationSet(Cur, v)) /\ UNCHANGED observers
HandleLamp_rgb ==
    \E a \in Args({0, 1}) :
        Do("rgb", handleLamp_rgb(Cur, a)) /\ UNCHANGED observers
HandleColor ==
    \E r \in ColorRequests :
        /\ Do("rgb", handleColor(Cur, r[1], r[2], r[3]))
        /\ UNCHANGED observers
HandleScene_rgb ==
    \E a \in Args(SceneInputs) :
        Do("rgb", handleScene_rgb(Cur, a)) /\ UNCHANGED observers
HandleEffect ==
    \E a \in Args(EffectInputs) :
        Do("rgb", handleEffect(Cur, a)) /\ UNCHANGED observers

NoCycle == [short |-> 0, long |-> 0, verylong |-> 0,
            released |-> FALSE, duration |-> 0]

NoBurst == [edits |-> 0, writes |-> 0]

InitObservers ==
    /\ cycle = NoCycle
    /\ polled = TRUE
    /\ fadeFrom = 0
    /\ fadeTicks = 0
    /\ resp = 0
    /\ hk = NoHk
    /\ burst = NoBurst
    /\ phase = "free"

InitMachine(m) ==
    /\ pc = m.pc /\ blink = m.blink /\ millis = m.millis
    /\ lampOn = m.lampOn /\ lampBrightness = m.lampBrightness
    /\ lampHue = m.lampHue /\ lampSaturation = m.lampSaturation
    /\ currentScene = m.currentScene /\ currentEffect = m.currentEffect
    /\ targetBrightness = m.targetBrightness /\ currentPWM = m.currentPWM
    /\ isFading = m.isFading /\ fadeTicker = m.fadeTicker
    /\ buttonPressTime = m.buttonPressTime
    /\ buttonPressed = m.buttonPressed
    /\ longPressHandled = m.longPressHandled
    /\ veryLongPressHandled = m.veryLongPressHandled
    /\ store = m.store /\ lampPin = m.lampPin /\ leds = m.leds
    /\ lastEffectUpdate = m.lastEffectUpdate /\ effectHue = m.effectHue
    /\ breathLevel = m.breathLevel
    /\ breathDirection = m.breathDirection

\* A device that is powered for the first time: no settings file yet
Init ==
    /\ sketch \in {"prod", "rgb"}
    /\ InitMachine(Globals(NoFile))
    /\ InitObservers

Next ==
    \/ PowerLoss
    \/ Setup_prod
    \/ Setup_rgb
    \/ CoarseTick
    \/ FadeStep
    \/ HandleButton_prod
    \/ IdentifyBegin_prod
    \/ IdentifyResume_prod
    \/ LampOnSet_prod
    \/ LampBrightnessSet_prod
    \/ HandleLamp_prod
    \/ HandleBrightness
    \/ HandleScene_prod
    \/ HandleButton_rgb
    \/ LampIdentify_rgb
    \/ LampOnSet_rgb
    \/ LampBrightnessSet_rgb
    \/ LampHueSet
    \/ LampSaturationSet
    \/ HandleLamp_rgb
    \/ HandleColor
    \/ HandleScene_rgb
    \/ HandleEffect

Spec == Init /\ [][Next]_vars

-----------------------------------------------------------------------------
(* The button under a fine clock.  loop() keeps polling: handleButton runs  *)
(* at least once between two ticks of the clock.  cycle counts the events   *)
(* of the press cycle that the last press edge opened; duration is          *)
(* pressDuration at the last poll of that cycle.                            *)

ObserveButton(c, branch, d) ==
    CASE branch = "press" -> NoCycle
      [] branch = "short" ->
            [c EXCEPT !.short = @ + 1, !.released = TRUE, !.duration = d]
      [] branch = "release" -> [c EXCEPT !.released = TRUE, !.duration = d]
      [] branch = "verylong" -> [c EXCEPT !.verylong = @ + 1, !.duration = d]
      [] branch = "long" -> [c EXCEPT !.long = @ + 1, !.duration = d]
      [] branch = "held" -> [c EXCEPT !.duration = d]
      [] OTHER -> c

LoopTick ==
    /\ polled
    /\ Tick(PollMs)
    /\ polled' = FALSE
    /\ UNCHANGED <<cycle, fadeFrom, fadeTicks, resp, hk, burst, phase>>

PollButton_prod ==
    \E level \in BOOLEAN :
        /\ Do("prod", handleButton_prod(Cur, level))
        /\ cycle' = ObserveButton(cycle, ButtonBranch(Cur, level, TRUE),
                                  pressDuration(Cur))
        /\ polled' = TRUE
        /\ UNCHANGED <<fadeFrom, fadeTicks, resp, hk, burst, phase>>

PollButton_rgb ==
    \E level \in BOOLEAN :
        /\ Do("rgb", handleButton_rgb(Cur, level))
        /\ cycle' = ObserveButton(cycle, ButtonBranch(Cur, level, FALSE),
                                  pressDuration(Cur))
        /\ polled' = TRUE
        /\ UNCHANGED <<fadeFrom, fadeTicks, resp, hk, burst, phase>>

NextButton ==
    \/ Setup_prod
    \/ Setup_rgb
    \/ LoopTick
    \/ PollButton_prod
    \/ PollButton_rgb

SpecButton == Init /\ [][NextButton]_vars

-----------------------------------------------------------------------------
(* The device with the HTTP responses observed: the HomeKit writes and the   *)
(* web requests of the two sketches, resp holding the status that the last  *)
(* request was answered with and hk the notifications it sent.              *)

Respond(m) ==
    /\ resp' = m.resp
    /\ hk' = m.hk
    /\ UNCHANGED <<cycle, polled, fadeFrom, fadeTicks, burst, phase>>

\* A web request of sketch sk is handled and answered, leaving machine m
Http(sk, m) == Do(sk, m) /\ Respond(m)

HttpLamp_prod ==
    \E a \in Args({0, 1}) : Http("prod", handleLamp_prod(Cur, a))
HttpBrightness ==
    \E a \in Args(BrightnessInputs) : Http("prod", handleBrightness(Cur, a))
HttpScene_prod ==
    \E a \in Args(SceneInputs) : Http("prod", handleScene_prod(Cur, a))
HttpLamp_rgb ==
    \E a \in Args({0, 1}) : Http("rgb", handleLamp_rgb(Cur, a))
HttpColor ==
    \E r \in ColorRequests : Http("rgb", handleColor(Cur, r[1], r[2], r[3]))
HttpScene_rgb ==
    \E a \in Args(SceneInputs) : Http("rgb", handleScene_rgb(Cur, a))
HttpEffect ==
    \E a \in Args(EffectInputs) : Http("rgb", handleEffect(Cur, a))

NextHttp ==
    \/ PowerLoss
    \/ Setup_prod
    \/ Setup_rgb
    \/ FadeStep
    \/ LampOnSet_prod
    \/ LampBrightnessSet_prod
    \/ HttpLamp_prod
    \/ HttpBrightness
    \/ HttpScene_prod
    \/ LampOnSet_rgb
    \/ LampBrightnessSet_rgb
    \/ LampHueSet
    \/ LampSaturationSet
    \/ HttpLamp_rgb
    \/ HttpColor
    \/ HttpScene_rgb
    \/ HttpEffect

SpecHttp == Init /\ [][NextHttp]_vars

-----------------------------------------------------------------------------
(* The fade engine of the production sketch on its own: a lamp that was     *)
(* booted switched on at level s gets a Brightness write of t, and then     *)
(* only fadeTicker fires.                                                   *)

Levels == 0 .. 100

SavedProd(on, b, sc) ==
    [exists |-> TRUE, fault |-> "none", keys |-> KeysProd, on |-> on,
     brightness |-> b, hue |-> 0, saturation |-> 0, scene |-> sc]

FadeStart(s, t) ==
    lampBrightnessSet_prod(setup_prod(Globals(SavedProd(TRUE, s, 0))), t)

InitFadeOver(L) ==
    /\ sketch = "prod"
    /\ \E s \in L, t \in L :
          /\ InitMachine(FadeStart(s, t))
          /\ fadeFrom = s
    /\ fadeTicks = 0
    /\ cycle = NoCycle
    /\ polled = TRUE
    /\ resp = 0
    /\ hk = NoHk
    /\ burst = NoBurst
    /\ phase = "free"

FadeTick ==
    /\ FadeStepStep
    /\ fadeTicks' = IF currentPWM # targetBrightness
                    THEN fadeTicks + 1 ELSE fadeTicks
    /\ UNCHANGED <<cycle, polled, fadeFrom, resp, hk, burst, phase>>

SpecFade == InitFadeOver(Levels) /\ [][FadeTick]_vars

\* fadeTicker.attach_ms(FADE_STEP_DELAY, fadeStep): while the ticker is
\* attached it keeps firing. Start and target levels on both sides of the
\* step sizes 1 (distance below 20) and distance/10.
LiveLevels == {0, 1, 5, 9, 10, 11, 19, 20, 21, 50, 90, 99, 100}

SpecFadeLive ==
    InitFadeOver(LiveLevels) /\ [][FadeTick]_vars /\ WF_vars(FadeTick)

-----------------------------------------------------------------------------
(* The web requests and the button together, with what the device tells its *)
(* surroundings observed: the HTTP status, the HomeKit notifications and    *)
(* the button events.  m is the machine that the handler of the step leaves.*)

Mirror(m, c) ==
    /\ resp' = m.resp
    /\ hk' = m.hk
    /\ cycle' = c
    /\ UNCHANGED <<polled, fadeFrom, fadeTicks, burst, phase>>

MirrorButton_prod ==
    \E level \in BOOLEAN :
        /\ Do("prod", handleButton_prod(Cur, level))
        /\ Mirror(handleButton_prod(Cur, level),
                  ObserveButton(cycle, ButtonBranch(Cur, level, TRUE),
                                pressDuration(Cur)))

MirrorButton_rgb ==
    \E level \in BOOLEAN :
        /\ Do("rgb", handleButton_rgb(Cur, level))
        /\ Mirror(handleButton_rgb(Cur, level),
                  ObserveButton(cycle, ButtonBranch(Cur, level, FALSE),
                                pressDuration(Cur)))

NextMirror ==
    \/ Setup_prod
    \/ Setup_rgb
    \/ CoarseTick
    \/ MirrorButton_prod
    \/ HttpLamp_prod
    \/ HttpBrightness
    \/ HttpScene_prod
    \/ MirrorButton_rgb
    \/ HttpLamp_rgb
    \/ HttpColor
    \/ HttpScene_rgb
    \/ HttpEffect

SpecMirror == Init /\ [][NextMirror]_vars

-----------------------------------------------------------------------------
(* Scenario B on the production sketch.  The lamp boots from saved settings *)
(* (on or off, at some level, at the Custom or the Reading scene), with the *)
(* button idle or held since boot for LONG_PRESS_TIME; it may get one edit  *)
(* of On or Brightness, whose fade may be in progress; then scene 3 is      *)
(* applied through /scene?id=3 or by the long press at scene 2, and after   *)
(* that only fadeTicker fires.                                              *)

\* held: after setup() handleButton() saw the button pressed, and
\* LONG_PRESS_TIME has passed since
InitSceneB ==
    /\ sketch = "prod"
    /\ \E on \in BOOLEAN, b \in {SCENE_NIGHT, SCENE_RELAX, SCENE_BRIGHT},
          sc \in {0, 2}, held \in BOOLEAN :
          LET m == setup_prod(Globals(SavedProd(on, b, sc)))
          IN InitMachine(IF held
                         THEN [handleButton_prod(m, TRUE)
                                 EXCEPT !.millis = m.millis + LONG_PRESS_TIME]
                         ELSE m)
    /\ InitObservers

SceneBEdit ==
    /\ phase = "free"
    /\ \/ \E v \in BOOLEAN : Do("prod", lampOnSet_prod(Cur, v))
       \/ \E v \in BrightnessInputs :
             Do("prod", lampBrightnessSet_prod(Cur, v))
    /\ phase' = "edited"
    /\ UNCHANGED <<cycle, polled, fadeFrom, fadeTicks, resp, hk, burst>>

SceneBApply ==
    /\ phase \in {"free", "edited"}
    /\ \/ Do("prod", handleScene_prod(Cur, Arg(3)))
       \/ \E level \in BOOLEAN :
             /\ ButtonBranch(Cur, level, TRUE) = "long"
             /\ currentScene = 2
             /\ Do("prod", handleButton_prod(Cur, level))
    /\ phase' = "applied"
    /\ UNCHANGED <<cycle, polled, fadeFrom, fadeTicks, resp, hk, burst>>

NextSceneB ==
    \/ SceneBEdit
    \/ SceneBApply
    \/ FadeStep

\* fadeTicker.attach_ms(FADE_STEP_DELAY, fadeStep): while the ticker is
\* attached it keeps firing
SpecSceneB == InitSceneB /\ [][NextSceneB]_vars /\ WF_vars(FadeStep)

-----------------------------------------------------------------------------
(* The RGB sketch with its effect generator: loop() calls updateEffect()    *)
(* after the handlers on every pass.                                        *)

FireSamples == {0, 254}         \* values that random(0, 255) returns

UpdateEffect ==
    \E r \in FireSamples :
        Do("rgb", updateEffect(Cur, r)) /\ UNCHANGED observers

\* One edit of each kind, enough to interrupt a running effect
EffectEdit ==
    /\ \/ Do("rgb", lampBrightnessSet_rgb(Cur, 55))
       \/ Do("rgb", lampHueSet(Cur, 180))
       \/ Do("rgb", lampSaturationSet(Cur, 50))
       \/ Do("rgb", handleColor(Cur, Arg(180), Arg(50), Arg(55)))
       \/ Do("rgb", handleScene_rgb(Cur, Arg(6)))
    /\ UNCHANGED observers

InitEffect ==
    /\ sketch = "rgb"
    /\ InitMachine(Globals(NoFile))
    /\ InitObservers

NextEffect ==
    \/ Setup_rgb
    \/ CoarseTick
    \/ UpdateEffect
    \/ HandleButton_rgb
    \/ LampOnSet_rgb
    \/ HandleLamp_rgb
    \/ HandleEffect
    \/ EffectEdit

SpecEffect == InitEffect /\ [][NextEffect]_vars

-----------------------------------------------------------------------------
(* A burst of edits: after setup() brightness (production) or colour (RGB)  *)
(* is edited up to MaxBurst times, through HomeKit or through the web       *)
(* server, with nothing else happening but the passes of loop() and the     *)
(* fade ticker.  burst counts the edits and the calls of saveSettings().    *)

MaxBurst == 3

\* m is the machine that the edit leaves
CountEdit(m) ==
    /\ burst.edits < MaxBurst
    /\ burst' = [edits |-> burst.edits + 1, writes |-> m.writes]
    /\ UNCHANGED <<cycle, polled, fadeFrom, fadeTicks, resp, hk, phase>>

BurstBrightnessSet_prod ==
    \E v \in BrightnessInputs :
        /\ Do("prod", lampBrightnessSet_prod(Cur, v))
        /\ CountEdit(lampBrightnessSet_prod(Cur, v))

BurstBrightness ==
    \E v \in BrightnessInputs :
        /\ Do("prod", handleBrightness(Cur, Arg(v)))
        /\ CountEdit(handleBrightness(Cur, Arg(v)))

BurstBrightnessSet_rgb ==
    \E v \in BrightnessInputs :
        /\ Do("rgb", lampBrightnessSet_rgb(Cur, v))
        /\ CountEdit(lampBrightnessSet_rgb(Cur, v))

BurstColor ==
    \E h \in HueInputs, b \in BrightnessInputs :
        /\ Do("rgb", handleColor(Cur, Arg(h), Arg(50), Arg(b)))
        /\ CountEdit(handleColor(Cur, Arg(h), Arg(50), Arg(b)))

NextBurst ==
    \/ Setup_prod
    \/ Setup_rgb
    \/ CoarseTick
    \/ FadeStep
    \/ BurstBrightnessSet_prod
    \/ BurstBrightness
    \/ BurstBrightnessSet_rgb
    \/ BurstColor

SpecBurst == Init /\ [][NextBurst]_vars

-----------------------------------------------------------------------------
(* Scenario A on the production sketch.  The lamp boots from saved settings *)
(* (on or off, at some level); it may get one edit of On or Brightness,     *)
(* whose fade may be in progress; then, the lamp being off, On is set       *)
(* through HomeKit or through /lamp?state=1, and after that only fadeTicker *)
(* fires.  fadeFrom holds the brightness the lamp had when On was set.      *)

InitSceneA ==
    /\ sketch = "prod"
    /\ \E on \in BOOLEAN, b \in LiveLevels :
          InitMachine(setup_prod(Globals(SavedProd(on, b, 0))))
    /\ InitObservers

SceneAOn ==
    /\ phase \in {"free", "edited"}
    /\ ~lampOn
    /\ \/ Do("prod", lampOnSet_prod(Cur, TRUE))
       \/ Do("prod", handleLamp_prod(Cur, Arg(1)))
    /\ phase' = "applied"
    /\ fadeFrom' = lampBrightness
    /\ UNCHANGED <<cycle, polled, fadeTicks, resp, hk, burst>>

NextSceneA ==
    \/ SceneBEdit
    \/ SceneAOn
    \/ FadeStep

SpecSceneA == InitSceneA /\ [][NextSceneA]_vars /\ WF_vars(FadeStep)

-----------------------------------------------------------------------------

(* A fade that is redirected.  A lamp that was booted switched on at level  *)
(* s got a Brightness write of t1; while the fade toward t1 is in flight    *)
(* the target is changed once, by a Brightness write, by /brightness or by  *)
(* switching the lamp off, and after that only fadeTicker fires.  fadeFrom  *)
(* holds the old target t1 from the redirect on.                            *)

RedirectLevels == {0, 10, 50, 90, 100}

Redirect ==
    /\ phase = "free"
    /\ isFading /\ currentPWM # targetBrightness
    /\ \/ \E v \in RedirectLevels :
             \/ Do("prod", lampBrightnessSet_prod(Cur, v))
             \/ Do("prod", handleBrightness(Cur, Arg(v)))
       \/ Do("prod", lampOnSet_prod(Cur, FALSE))
    /\ lampBrightness' # lampBrightness \/ lampOn' # lampOn
    /\ phase' = "applied"
    /\ fadeFrom' = targetBrightness
    /\ UNCHANGED <<cycle, polled, fadeTicks, resp, hk, burst>>

NextRedirect ==
    \/ FadeStep
    \/ Redirect

SpecRedirect ==
    InitFadeOver(RedirectLevels) /\ [][NextRedirect]_vars /\ WF_vars(FadeStep)

-----------------------------------------------------------------------------

(* The settings file across restarts.  The device boots with a settings     *)
(* file that an earlier run left in flash: a complete record of a valid     *)
(* state, a record that lacks keys (written by another version of the       *)
(* firmware), or a file that cannot be opened or parsed.  Then setup()      *)
(* runs, On is written through HomeKit (the setter ends in saveSettings),   *)
(* and power is lost and comes back.  phase tells whether a restart         *)
(* followed a save.                                                         *)

SavedRGB(on, b, h, s, sc) ==
    [exists |-> TRUE, fault |-> "none", keys |-> KeysRGB, on |-> on,
     brightness |-> b, hue |-> h, saturation |-> s, scene |-> sc]

\* Records that lack keys, and files that fail to open or to parse
DamagedFiles(f, keys) ==
    {[f EXCEPT !.keys = k] : k \in SUBSET keys}
    \cup {[f EXCEPT !.fault = e] : e \in {"open", "parse"}}

StoreFiles(sk) ==
    IF sk = "prod"
    THEN {SavedProd(on, b, sc) :
             on \in BOOLEAN, b \in Levels, sc \in 0 .. 4}
         \cup DamagedFiles(SavedProd(TRUE, 55, 3), KeysProd)
         \cup {NoFile}
    ELSE {SavedRGB(on, b, h, s, sc) :
             on \in BOOLEAN, b \in Levels, h \in {0, 180, 359},
             s \in {0, 100}, sc \in 0 .. NumScenes - 1}
         \cup DamagedFiles(SavedRGB(TRUE, 55, 180, 100, 3), KeysRGB)
         \cup {NoFile}

InitStore ==
    /\ sketch \in {"prod", "rgb"}
    /\ \E f \in StoreFiles(sketch) : InitMachine(Globals(f))
    /\ InitObservers

StoreSave ==
    /\ \E v \in BOOLEAN :
          \/ Do("prod", lampOnSet_prod(Cur, v))
          \/ Do("rgb", lampOnSet_rgb(Cur, v))
    /\ phase' = "saved"
    /\ UNCHANGED <<cycle, polled, fadeFrom, fadeTicks, resp, hk, burst>>

StoreRestart ==
    /\ pc # "setup" /\ Commit(Globals(store))
    /\ phase' = IF phase = "saved" THEN "restarted" ELSE phase
    /\ UNCHANGED <<cycle, polled, fadeFrom, fadeTicks, resp, hk, burst>>

NextStore ==
    \/ Setup_prod
    \/ Setup_rgb
    \/ StoreSave
    \/ StoreRestart

SpecStore == InitStore /\ [][NextStore]_vars

-----------------------------------------------------------------------------

(* Properties *)

LampState == <<lampOn, lampBrightness, lampHue, lampSaturation,
               currentScene, currentEffect>>

Clamp100(v) == Min(Max(v, 0), 100)

\* C1: in a press cycle in which the button is held for at least
\* FACTORY_RESET_TIME while loop() keeps polling, factoryReset runs exactly
\* once and nothing else fires in that cycle: no cycleScene, no toggle.
C1_ResetIsTheOnlyEvent ==
    cycle.duration >= FACTORY_RESET_TIME =>
        cycle.verylong = 1 /\ cycle.long = 0 /\ cycle.short = 0

\* C2: a press cycle released after LONG_PRESS_TIME <= d < FACTORY_RESET_TIME
\* has run cycleScene exactly once, and neither a toggle nor factoryReset.
C2_LongPressCyclesOnce ==
    (/\ cycle.released
     /\ cycle.duration >= LONG_PRESS_TIME
     /\ cycle.duration < FACTORY_RESET_TIME)
    => cycle.long = 1 /\ cycle.short = 0 /\ cycle.verylong = 0

\* C3: in a press cycle shorter than LONG_PRESS_TIME nothing fires while the
\* button is held, and the release edge fires exactly one ShortPress, which
\* inverts lampOn (and sets currentEffect to 0 in the RGB sketch); a release
\* after a long or very long firing changes nothing.
C3_ShortPressTogglesOnce ==
    /\ [](cycle.duration < LONG_PRESS_TIME =>
            /\ cycle.long = 0 /\ cycle.verylong = 0
            /\ cycle.short = IF cycle.released THEN 1 ELSE 0)
    /\ [][cycle'.short # cycle.short /\ cycle'.short # 0 =>
            /\ cycle'.short = cycle.short + 1
            /\ cycle'.released /\ ~cycle.released
            /\ lampOn' = ~lampOn
            /\ (sketch = "rgb" => currentEffect' = 0)]_vars
    /\ [][(/\ cycle.long + cycle.verylong > 0
           /\ ~cycle.released /\ cycle'.released)
          => UNCHANGED <<LampState, store, targetBrightness, leds>>]_vars

C3_Witness ==
    /\ cycle.released /\ cycle.short = 1
    /\ cycle.duration = 2 * PollMs
    /\ lampOn /\ store.exists /\ store.on

\* C4: in the production sketch a Brightness write of v, through HomeKit or
\* through /brightness?value=v, leaves lampBrightness = min(max(v,0),100),
\* the HTTP request is answered 200, and lampBrightness is within 0..100 in
\* every state between two handlers.
C4_BrightnessClamped ==
    /\ [](sketch = "prod" => lampBrightness \in 0 .. 100)
    /\ [][\A v \in BrightnessInputs :
            /\ Do("prod", lampBrightnessSet_prod(Cur, v))
                 => lampBrightness' = Clamp100(v)
            /\ Http("prod", handleBrightness(Cur, Arg(v)))
                 => lampBrightness' = Clamp100(v) /\ resp' = 200]_vars

C4_Witness ==
    /\ sketch = "prod" /\ pc = "loop"
    /\ resp = 200
    /\ lampBrightness = 0 /\ store.exists /\ store.brightness = 0

\* C5: in the RGB sketch, after every external write, lampBrightness is in
\* [0,100], lampHue in [0,360) and lampSaturation in [0,100].
C5_RgbValuesInRange ==
    sketch = "rgb" /\ pc = "loop" =>
        /\ lampBrightness >= 0 /\ lampBrightness <= 100
        /\ lampHue >= 0 /\ lampHue < 360
        /\ lampSaturation >= 0 /\ lampSaturation <= 100

\* C6: in the production sketch, in every state between two handlers (so at
\* the completion of every intent) the settings record holds lampOn,
\* brightness and scene as they are in memory: without a settings file the
\* memory holds the defaults, and a power loss followed by setup() brings
\* back the lampOn, lampBrightness and currentScene that were in memory.
C6_PersistedMatchesMemory ==
    sketch = "prod" /\ pc # "setup" =>
        /\ IF store.exists
           THEN /\ store.on = lampOn
                /\ store.brightness = lampBrightness
                /\ store.scene = currentScene
           ELSE /\ lampOn = Globals(NoFile).lampOn
                /\ lampBrightness = Globals(NoFile).lampBrightness
                /\ currentScene = Globals(NoFile).currentScene
        /\ LET r == setup_prod(Globals(store))
           IN /\ r.lampOn = lampOn
              /\ r.lampBrightness = lampBrightness
              /\ r.currentScene = currentScene

C6_Witness ==
    /\ sketch = "prod" /\ pc = "loop"
    /\ store.exists /\ store.on /\ store.brightness = 40 /\ store.scene = 3
    /\ lampOn /\ lampBrightness = 40 /\ currentScene = 3
    /\ buttonPressed /\ longPressHandled

\* C7: in the RGB sketch every completed intent leaves a settings record
\* that holds on, brightness, hue, saturation and scene as they are in
\* memory.
C7_RgbPersistedMatchesMemory ==
    sketch = "rgb" /\ pc = "loop" =>
        /\ store.exists
        /\ store.on = lampOn
        /\ store.brightness = lampBrightness
        /\ store.hue = lampHue
        /\ store.saturation = lampSaturation
        /\ store.scene = currentScene

\* C8: during a fade from level fadeFrom toward targetBrightness, currentPWM
\* lies within [min(fadeFrom,target), max(fadeFrom,target)] after every
\* fadeStep: no step crosses the target, rising or falling.
C8_FadeNeverOvershoots ==
    /\ currentPWM >= Min(fadeFrom, targetBrightness)
    /\ currentPWM <= Max(fadeFrom, targetBrightness)

C8_Witness ==
    /\ fadeFrom = 100 /\ targetBrightness = 0
    /\ currentPWM = 90 /\ fadeTicks = 1 /\ isFading

\* C9: while the fade ticker keeps firing and the target stays as it is,
\* currentPWM reaches targetBrightness after at most |target - start| moving
\* ticks, and stays there.
C9_FadeConverges ==
    /\ [](fadeTicks <= Abs(targetBrightness - fadeFrom))
    /\ <>[](currentPWM = targetBrightness)

C9_Witness ==
    /\ fadeFrom = 0 /\ targetBrightness = 100
    /\ currentPWM = 100 /\ fadeTicks > 1
    /\ ~isFading /\ ~fadeTicker

\* C10: running lampIdentify to completion changes no LampState field and
\* writes nothing to the settings file.
C10_IdentifyIsTransient ==
    [][(\/ sketch = "prod" /\ pc = "identify" /\ pc' = "loop"
        \/ Do("rgb", lampIdentify_rgb(Cur)))
       => UNCHANGED <<LampState, store>>]_vars

\* C11: in both sketches factoryReset ends the running process: the step
\* that runs it leaves the device booting with the settings file erased, the
\* only thing a booting device does is setup(), and setup() without a
\* settings file leaves on = false, brightness = 100, scene = 0, effect = 0
\* whatever the state was before the reset.
C11_FactoryResetIsTerminal ==
    /\ [][(\E level \in BOOLEAN :
              \/ /\ ButtonBranch(Cur, level, TRUE) = "verylong"
                 /\ Do("prod", handleButton_prod(Cur, level))
              \/ /\ ButtonBranch(Cur, level, FALSE) = "verylong"
                 /\ Do("rgb", handleButton_rgb(Cur, level)))
           => pc' = "setup" /\ ~store'.exists]_vars
    /\ [][pc = "setup" => Setup_prod \/ Setup_rgb]_vars
    /\ [][pc = "setup" /\ ~store.exists /\ pc' = "loop" =>
            /\ ~lampOn' /\ lampBrightness' = 100
            /\ currentScene' = 0 /\ currentEffect' = 0]_vars

C11_Witness ==
    /\ sketch = "rgb" /\ pc = "loop" /\ millis = 0
    /\ cycle.verylong = 1 /\ ~buttonPressed
    /\ ~lampOn /\ lampBrightness = 100
    /\ currentScene = 0 /\ currentEffect = 0
    /\ store.exists /\ ~store.on /\ store.scene = 0

\* C12: from every state between two handlers, every HomeKit Brightness set
\* and every /brightness request with a value (production), every HomeKit
\* Brightness, Hue or Saturation set and every /color request with all three
\* parameters (RGB) leaves currentScene = 0, whatever the scene was.
C12_DirectEditClearsScene ==
    /\ Running("prod") =>
         /\ \A v \in BrightnessInputs :
               lampBrightnessSet_prod(Cur, v).currentScene = 0
         /\ \A a \in Args(BrightnessInputs) :
               a.has => handleBrightness(Cur, a).currentScene = 0
    /\ Running("rgb") =>
         /\ \A v \in BrightnessInputs :
               lampBrightnessSet_rgb(Cur, v).currentScene = 0
         /\ \A v \in HueInputs : lampHueSet(Cur, v).currentScene = 0
         /\ \A v \in SaturationInputs :
               lampSaturationSet(Cur, v).currentScene = 0
         /\ \A r \in ColorRequests :
               r[1].has /\ r[2].has /\ r[3].has =>
                  handleColor(Cur, r[1], r[2], r[3]).currentScene = 0

\* Scene 4 was applied (its notification is the last one), and then a
\* HomeKit Brightness set of 55 came
C12_Witness ==
    /\ sketch = "rgb" /\ pc = "loop"
    /\ hk.brightness = 80 /\ hk.hue = 200 /\ hk.saturation = 100
    /\ lampBrightness = 55 /\ lampHue = 200 /\ lampSaturation = 100
    /\ currentScene = 0 /\ store.scene = 0

\* What applyScene(id) must leave
IsPreset(m, id) ==
    /\ m.currentScene = id
    /\ m.currentEffect = 0
    /\ m.lampHue = scenes[id + 1].hue
    /\ m.lampSaturation = scenes[id + 1].saturation
    /\ m.lampBrightness = scenes[id + 1].brightness
    /\ m.lampOn

\* C13: in the RGB sketch applyScene(id), for id in 1..8 and from every
\* state, whether /scene?id= or a long press at the scene before id calls
\* it, leaves currentScene = id, currentEffect = 0, hue, saturation and
\* brightness as in scenes[id], and the lamp switched on.
C13_ApplySceneSetsPreset ==
    Running("rgb") =>
        \A id \in 1 .. 8 :
            /\ IsPreset(applyScene_rgb(Cur, id), id)
            /\ IsPreset(handleScene_rgb(Cur, Arg(id)), id)
            /\ \A level \in BOOLEAN :
                  /\ ButtonBranch(Cur, level, FALSE) = "long"
                  /\ (currentScene + 1) % NumScenes = id
                  => IsPreset(handleButton_rgb(Cur, level), id)

C13_Witness ==
    /\ sketch = "rgb" /\ pc = "loop"
    /\ currentScene = 6 /\ currentEffect = 0 /\ lampOn
    /\ lampHue = 260 /\ lampSaturation = 60 /\ lampBrightness = 40
    /\ leds = Solid(260, 60, 40)
    /\ store.scene = 6 /\ store.on
    /\ buttonPressed /\ longPressHandled

\* C14: on the production sketch, applying scene 3 through /scene?id=3 or by
\* a long press at scene 2, from any state, leaves currentScene = 3, the
\* lamp on and lampBrightness = 40, and with no further intent the fade
\* brings currentPWM to 40, where it stays.
C14_RelaxSceneConverges ==
    /\ [](phase = "applied" =>
            currentScene = 3 /\ lampOn /\ lampBrightness = SCENE_RELAX)
    /\ (phase = "applied") ~> (currentPWM = SCENE_RELAX)
    /\ [][phase = "applied" /\ currentPWM = SCENE_RELAX =>
            currentPWM' = SCENE_RELAX]_vars

C14_Witness ==
    /\ phase = "applied"
    /\ currentScene = 3 /\ lampOn /\ lampBrightness = 40
    /\ currentPWM = 40 /\ ~isFading /\ ~fadeTicker
    /\ buttonPressed /\ longPressHandled
    /\ store.scene = 3 /\ store.brightness = 40

\* C15: in the RGB sketch, in every state reachable by HomeKit sets, web
\* requests, button presses, identify and restarts, currentEffect # 0
\* implies lampOn.
C15_EffectImpliesOn ==
    sketch = "rgb" /\ currentEffect # 0 => lampOn

\* /effect?id=1 on a lamp that was off: the lamp is on, the file still says
\* off
C15_Witness ==
    /\ sketch = "rgb" /\ pc = "loop"
    /\ currentEffect = 1 /\ lampOn
    /\ store.exists /\ ~store.on

\* updateEffect() leaves machine m as it is, now and once the 50 ms of its
\* rate limit are over
NoEffectFrame(m) ==
    \A r \in FireSamples, d \in {0, CoarseMs} :
        LET mt == [m EXCEPT !.millis = @ + d]
        IN updateEffect(mt, r) = mt

Suspended(m) == m.currentEffect = 0 /\ NoEffectFrame(m)

\* C16: in the RGB sketch updateEffect writes the strip only in states with
\* lampOn and currentEffect # 0; every On write (HomeKit, /lamp, short
\* press), every HomeKit Brightness, Hue or Saturation set, every /color
\* request with all parameters and every application of a scene 0..8
\* (/scene, long press) leaves currentEffect = 0, so that updateEffect
\* writes nothing after it.
C16_EffectSuspended ==
    Running("rgb") =>
        /\ (~lampOn \/ currentEffect = 0 => NoEffectFrame(Cur))
        /\ \A v \in BOOLEAN : Suspended(lampOnSet_rgb(Cur, v))
        /\ \A a \in Args({0, 1}) :
              a.has => Suspended(handleLamp_rgb(Cur, a))
        /\ \A level \in BOOLEAN :
              ButtonBranch(Cur, level, FALSE) \in {"short", "long"}
                 => Suspended(handleButton_rgb(Cur, level))
        /\ \A v \in BrightnessInputs :
              Suspended(lampBrightnessSet_rgb(Cur, v))
        /\ \A v \in HueInputs : Suspended(lampHueSet(Cur, v))
        /\ \A v \in SaturationInputs : Suspended(lampSaturationSet(Cur, v))
        /\ \A r \in ColorRequests :
              r[1].has /\ r[2].has /\ r[3].has
                 => Suspended(handleColor(Cur, r[1], r[2], r[3]))
        /\ \A id \in 0 .. 8 : Suspended(handleScene_rgb(Cur, Arg(id)))

\* The rainbow drew a frame, the lamp was switched off, and a later pass of
\* loop() left the strip black
C16_Witness ==
    /\ sketch = "rgb" /\ pc = "loop"
    /\ effectHue = 1 /\ lastEffectUpdate = CoarseMs
    /\ millis = 2 * CoarseMs
    /\ ~lampOn /\ currentEffect = 0 /\ leds = Black

\* C17: whenever an intent that comes from the web server or from the button
\* changes on, brightness, hue or saturation, a HomeKit notification with
\* the new value of every changed characteristic is sent before the handler
\* returns.
C17_ChangesAreNotified ==
    [][pc = "loop" /\ pc' = "loop" /\ millis' = millis =>
         /\ lampOn' # lampOn =>
               "on" \in hk'.sent /\ hk'.on = lampOn'
         /\ lampBrightness' # lampBrightness =>
               "brightness" \in hk'.sent /\ hk'.brightness = lampBrightness'
         /\ lampHue' # lampHue =>
               "hue" \in hk'.sent /\ hk'.hue = lampHue'
         /\ lampSaturation' # lampSaturation =>
               /\ "saturation" \in hk'.sent
               /\ hk'.saturation = lampSaturation']_vars

\* C18: a burst of N > 1 successive brightness or colour edits with nothing
\* else between them causes fewer than N writes of the settings file.
C18_BurstCoalesces ==
    burst.edits > 1 => burst.writes < burst.edits

\* The handler answers 400 and leaves machine m as it was: LampState, the
\* fade target, the settings file, every other variable, and no
\* notification sent
Rejected(r, m) == r = [m EXCEPT !.resp = 400] /\ r.hk.sent = {}

\* C19: a web request that lacks a required parameter (/lamp, /brightness,
\* /scene on the production sketch; /lamp, /color with any of h, s, b
\* absent, /scene, /effect on the RGB sketch) is answered 400 and leaves
\* LampState, the fade target, the settings file and the HomeKit
\* notifications as they were.
C19_MissingParameterRejected ==
    /\ [](Running("prod") =>
            /\ Rejected(handleLamp_prod(Cur, NoArg), Cur)
            /\ Rejected(handleBrightness(Cur, NoArg), Cur)
            /\ Rejected(handleScene_prod(Cur, NoArg), Cur))
    /\ [](Running("rgb") =>
            /\ Rejected(handleLamp_rgb(Cur, NoArg), Cur)
            /\ \A r \in ColorRequests :
                  ~(r[1].has /\ r[2].has /\ r[3].has) =>
                     Rejected(handleColor(Cur, r[1], r[2], r[3]), Cur)
            /\ Rejected(handleScene_rgb(Cur, NoArg), Cur)
            /\ Rejected(handleEffect(Cur, NoArg), Cur))
    /\ [][pc = "loop" /\ resp' = 400 /\ <<resp, hk>>' # <<resp, hk>> =>
            /\ UNCHANGED <<LampState, targetBrightness, store, leds, lampPin>>
            /\ hk'.sent = {}
            /\ [hk' EXCEPT !.sent = {}] = [hk EXCEPT !.sent = {}]]_vars

\* A request was rejected while an effect was running on a lamp that the
\* settings file has as off
C19_Witness ==
    /\ sketch = "rgb" /\ pc = "loop"
    /\ resp = 400 /\ hk.sent = {}
    /\ lampOn /\ currentEffect = 1
    /\ store.exists /\ ~store.on

\* C20: a web request whose required parameter is present but is not a
\* number (/lamp?state=abc, /brightness?value=abc, /scene?id=x) is answered
\* 400 and leaves LampState as it was.
C20_MalformedParameterRejected ==
    [][(\/ Http("prod", handleLamp_prod(Cur, BadArg))
        \/ Http("prod", handleBrightness(Cur, BadArg))
        \/ Http("prod", handleScene_prod(Cur, BadArg))
        \/ Http("rgb", handleLamp_rgb(Cur, BadArg))
        \/ Http("rgb", handleScene_rgb(Cur, BadArg))
        \/ Http("rgb", handleEffect(Cur, BadArg)))
       => resp' = 400 /\ UNCHANGED LampState]_vars

\* A valid combination of the persisted fields in machine m
ValidFields(m) ==
    /\ m.lampBrightness \in 0 .. 100
    /\ m.lampHue \in 0 .. 359 /\ m.lampSaturation \in 0 .. 100
    /\ m.currentScene \in
          0 .. (IF sketch = "prod" THEN 4 ELSE NumScenes - 1)

Loaded(f, key, stored, default) == IF key \in f.keys THEN stored ELSE default

\* C22: at boot, when there is no settings file, or it cannot be opened, or
\* it fails to parse, loadSettings leaves LampState at the defaults
\* (on = false, brightness = 100, scene = 0, effect = 0) and setup() goes on
\* to loop(); when the record parses but lacks a key, that field takes its
\* default and every field whose key is present takes the stored value.
C22_LoadFallsBack ==
    /\ [](pc = "setup" /\ sketch = "prod" =>
            LET r == loadSettings_prod(Cur)
            IN /\ setup_prod(Cur).pc = "loop"
               /\ r.currentEffect = 0
               /\ IF ~store.exists \/ store.fault # "none"
                  THEN ~r.lampOn /\ r.lampBrightness = 100
                       /\ r.currentScene = 0
                  ELSE /\ r.lampOn = Loaded(store, "lampOn", store.on, FALSE)
                       /\ r.lampBrightness =
                             Loaded(store, "brightness", store.brightness, 100)
                       /\ r.currentScene =
                             Loaded(store, "scene", store.scene, 0))
    /\ [](pc = "setup" /\ sketch = "rgb" =>
            LET r == loadSettings_rgb(Cur)
            IN /\ setup_rgb(Cur).pc = "loop"
               /\ r.currentEffect = 0
               /\ IF ~store.exists \/ store.fault # "none"
                  THEN ~r.lampOn /\ r.lampBrightness = 100
                       /\ r.currentScene = 0
                  ELSE /\ r.lampOn = Loaded(store, "on", store.on, FALSE)
                       /\ r.lampBrightness =
                             Loaded(store, "brightness", store.brightness, 100)
                       /\ r.lampHue = Loaded(store, "hue", store.hue, 0)
                       /\ r.lampSaturation =
                             Loaded(store, "saturation", store.saturation, 0)
                       /\ r.currentScene =
                             Loaded(store, "scene", store.scene, 0))
    /\ [][pc = "setup" /\ pc' = "loop"
            /\ (~store.exists \/ store.fault # "none") =>
            /\ ~lampOn' /\ lampBrightness' = 100
            /\ currentScene' = 0 /\ currentEffect' = 0]_vars

\* The production sketch went through setup() with a settings file that does
\* not parse and runs on the defaults
C22_Witness ==
    /\ sketch = "prod" /\ pc = "loop"
    /\ store.exists /\ store.fault = "parse" /\ store.brightness = 55
    /\ ~lampOn /\ lampBrightness = 100 /\ currentScene = 0

\* C23: on the production sketch, from any state with the lamp off at
\* brightness b, setting On through the HomeKit setter or /lamp?state=1
\* gives lampOn with brightness still b, /status reports on: true and
\* brightness: b, and when the fade is over currentPWM = b and stays b.
C23_SwitchOnKeepsBrightness ==
    /\ [](phase = "applied" =>
            /\ lampOn /\ lampBrightness = fadeFrom
            /\ handleStatus(Cur).on
            /\ handleStatus(Cur).brightness = fadeFrom)
    /\ (phase = "applied") ~> (currentPWM = fadeFrom)
    /\ [][phase = "applied" /\ currentPWM = fadeFrom =>
            currentPWM' = fadeFrom]_vars

\* A lamp at brightness 50 was switched on, the fade has reached 50 and
\* the engine has stopped
C23_Witness ==
    /\ phase = "applied" /\ lampOn
    /\ fadeFrom = 50 /\ currentPWM = 50 /\ ~isFading
    /\ store.on /\ store.brightness = 50

\* C24: a level on the button input that lasts less than DEBOUNCE_DELAY
\* before it reverts is not trusted: the press cycle it opens and closes
\* fires no ShortPress (and so leaves LampState alone).
C24_GlitchIsIgnored ==
    cycle.released /\ cycle.duration < DEBOUNCE_DELAY => cycle.short = 0

\* C25: after every smooth request, one whose target equals currentPWM
\* included, the fade engine eventually stops (isFading false, fadeTicker
\* detached), and whenever it is idle currentPWM = targetBrightness.
C25_EngineReturnsToIdle ==
    /\ isFading ~> (~isFading /\ ~fadeTicker)
    /\ [](~isFading => currentPWM = targetBrightness)

\* C26: when the target is changed from t1 to t2 while a fade toward t1 is
\* in flight, the new request is the target at once, every fadeStep after
\* it brings currentPWM strictly closer to t2 until it is there (the fade
\* toward t1 is not completed first), and currentPWM ends at t2.
C26_FadeRedirects ==
    /\ [](phase = "applied" =>
            targetBrightness = (IF lampOn THEN lampBrightness ELSE 0))
    /\ [][phase = "applied" =>
            /\ targetBrightness' = targetBrightness
            /\ IF currentPWM = targetBrightness
               THEN currentPWM' = currentPWM
               ELSE Abs(currentPWM' - targetBrightness)
                       < Abs(currentPWM - targetBrightness)]_vars
    /\ (phase = "applied") ~> (currentPWM = targetBrightness)

\* A fade from 0 toward 100 was redirected to 10 beyond it, while currentPWM
\* was between 10 and 100, and has come back down to 10
C26_Witness ==
    /\ phase = "applied" /\ fadeFrom = 100
    /\ targetBrightness = 10 /\ currentPWM = 10 /\ ~isFading
    /\ lampOn /\ store.brightness = 10

\* C27: on the RGB sketch, whenever an intent has completed and no effect is
\* selected, the strip is black exactly when the lamp is off, and otherwise
\* shows the colour of the current hue, saturation and brightness.
C27_StripFollowsState ==
    Running("rgb") /\ currentEffect = 0 =>
        leds = IF lampOn
               THEN Solid(lampHue, lampSaturation, lampBrightness)
               ELSE Black

\* C28: on the production sketch, between the start and the end of
\* lampIdentify every write to the lamp pin is one of identify's own: the
\* fadeTicker callback does not change the output while identify blinks.
C28_IdentifyOwnsThePin ==
    [][pc = "identify" /\ lampPin' # lampPin =>
          blink' # blink \/ pc' # "identify"]_vars

\* C29: on the production sketch every long press sets currentScene to
\* (currentScene + 1) mod 5, scene 0 (Custom) being part of the cycle and
\* leaving the brightness as it was, the scenes 1..4 setting their level;
\* after it the lamp is on.
C29_CycleSceneVisitsAll ==
    /\ [](sketch = "prod" => currentScene \in 0 .. 4)
    /\ [](Running("prod") =>
            LET r == cycleScene_prod(Cur)
            IN /\ r.currentScene = (currentScene + 1) % 5
               /\ r.lampOn
               /\ r.lampBrightness = IF r.currentScene = 0
                                     THEN lampBrightness
                                     ELSE SceneBrightness(r.currentScene))
    /\ [][sketch = "prod" /\ cycle'.long = cycle.long + 1 =>
            /\ currentScene' = (currentScene + 1) % 5
            /\ lampOn'
            /\ currentScene' = 0 => lampBrightness' = lampBrightness]_vars

\* A long press at scene 4 (Night) went on to scene 0 and left the
\* brightness of Night
C29_Witness ==
    /\ sketch = "prod" /\ pc = "loop" /\ cycle.long = 1
    /\ currentScene = 0 /\ lampOn /\ lampBrightness = SCENE_NIGHT
    /\ store.scene = 0 /\ store.brightness = SCENE_NIGHT

\* C30: on the RGB sketch cycleScene never selects scene 0: a long press
\* goes from scene 8 to scene 1, so the hue, saturation and brightness of
\* the user are not replaced by the entry scenes[0].
C30_CycleSceneSkipsCustom ==
    [][sketch = "rgb" /\ cycle'.long = cycle.long + 1 =>
          currentScene' # 0]_vars

\* C31: on the RGB sketch a scene id below 0 or above 8 is ignored:
\* applyScene(id) leaves the machine as it is (LampState, the strip, the
\* settings file, no notification), no entry outside scenes[] is read, and
\* /scene?id= is answered 200 all the same.
C31_SceneIdOutOfRangeIgnored ==
    /\ [](Running("rgb") =>
            \A id \in SceneInputs \ (0 .. NumScenes - 1) :
               /\ id + 1 \notin DOMAIN scenes
               /\ applyScene_rgb(Cur, id) = Cur
               /\ handleScene_rgb(Cur, Arg(id)) = [Cur EXCEPT !.resp = 200])
    /\ [][sketch = "rgb" /\ pc = "loop" /\ resp' = 200 /\ hk'.sent = {}
            /\ ~lampOn' /\ <<resp, hk>>' # <<resp, hk>> =>
            UNCHANGED <<LampState, leds, store>>]_vars

\* /scene with an id outside the table was answered 200 on a lamp that a
\* HomeKit write had switched off at scene 3
C31_Witness ==
    /\ sketch = "rgb" /\ pc = "loop"
    /\ resp = 200 /\ hk.sent = {}
    /\ ~lampOn /\ currentScene = 3 /\ leds = Black
    /\ store.scene = 3 /\ ~store.on

\* C32: on the production sketch /scene?id=N with N outside 1..4 is clamped
\* to Custom: currentScene becomes 0 and nothing else of LampState changes,
\* lampOn and lampBrightness are as before the request.
C32_SceneIdOutOfRangeIsCustom ==
    Running("prod") =>
        \A id \in SceneInputs \ (1 .. 4) :
            LET r == handleScene_prod(Cur, Arg(id))
            IN /\ r.currentScene = 0
               /\ r.lampOn = lampOn
               /\ r.lampBrightness = lampBrightness
               /\ r.resp = 200

\* C33: in both sketches the settings file is erased and the device is
\* restarted only by the poll of handleButton that sees the button held
\* for FACTORY_RESET_TIME or more in one press cycle; no HomeKit set, no web
\* request and no poll of a shorter press does either.
C33_ResetHasOneTrigger ==
    /\ [][(store.exists /\ ~store'.exists) \/ (pc = "loop" /\ pc' = "setup")
            => /\ buttonPressed
               /\ pressDuration(Cur) >= FACTORY_RESET_TIME
               /\ cycle'.verylong = cycle.verylong + 1
               /\ cycle'.duration >= FACTORY_RESET_TIME]_vars
    /\ [](Running("prod") =>
            \A r \in {lampOnSet_prod(Cur, v) : v \in BOOLEAN}
                     \cup {lampBrightnessSet_prod(Cur, v) :
                              v \in BrightnessInputs}
                     \cup {identifyBegin_prod(Cur)}
                     \cup {handleLamp_prod(Cur, a) : a \in Args({0, 1})}
                     \cup {handleBrightness(Cur, a) :
                              a \in Args(BrightnessInputs)}
                     \cup {handleScene_prod(Cur, a) : a \in Args(SceneInputs)}
                     \cup {handleButton_prod(Cur, level) :
                              level \in {l \in BOOLEAN :
                                 pressDuration(Cur) < FACTORY_RESET_TIME}} :
               r.pc # "setup" /\ (store.exists => r.store.exists))
    /\ [](Running("rgb") =>
            \A r \in {lampOnSet_rgb(Cur, v) : v \in BOOLEAN}
                     \cup {lampBrightnessSet_rgb(Cur, v) :
                              v \in BrightnessInputs}
                     \cup {lampHueSet(Cur, v) : v \in HueInputs}
                     \cup {lampSaturationSet(Cur, v) : v \in SaturationInputs}
                     \cup {lampIdentify_rgb(Cur)}
                     \cup {handleLamp_rgb(Cur, a) : a \in Args({0, 1})}
                     \cup {handleColor(Cur, c[1], c[2], c[3]) :
                              c \in ColorRequests}
                     \cup {handleScene_rgb(Cur, a) : a \in Args(SceneInputs)}
                     \cup {handleEffect(Cur, a) : a \in Args(EffectInputs)}
                     \cup {handleButton_rgb(Cur, level) :
                              level \in {l \in BOOLEAN :
                                 pressDuration(Cur) < FACTORY_RESET_TIME}} :
               r.pc # "setup" /\ (store.exists => r.store.exists))

\* The production sketch after a press that was held beyond
\* FACTORY_RESET_TIME: the long press fired first, then the reset erased the
\* settings that the long press had saved
C33_Witness ==
    /\ sketch = "prod" /\ pc = "setup"
    /\ cycle.verylong = 1 /\ cycle.long = 1
    /\ cycle.duration >= FACTORY_RESET_TIME
    /\ ~store.exists /\ ~buttonPressed

\* The fields that an On write of value v leaves in machine r, coming from
\* the current state: on = v, and brightness, hue, saturation and scene as
\* they were
OnlyOn(r, v) ==
    /\ r.lampOn = v
    /\ r.lampBrightness = lampBrightness
    /\ r.lampHue = lampHue /\ r.lampSaturation = lampSaturation
    /\ r.currentScene = currentScene

\* C34: an On write through any surface (HomeKit On set, /lamp?state=,
\* short press), from a state with brightness in 0..100, changes on and
\* leaves brightness, hue, saturation and scene as they were; on the RGB
\* sketch it also sets effect to 0.
C34_OnWritesTouchOnlyOn ==
    /\ [](Running("prod") /\ lampBrightness \in 0 .. 100 =>
            /\ \A v \in BOOLEAN :
                  /\ OnlyOn(lampOnSet_prod(Cur, v), v)
                  /\ OnlyOn(handleLamp_prod(Cur, Arg(IF v THEN 1 ELSE 0)), v)
            /\ \A level \in BOOLEAN :
                  ButtonBranch(Cur, level, TRUE) = "short" =>
                     OnlyOn(handleButton_prod(Cur, level), ~lampOn))
    /\ [](Running("rgb") /\ lampBrightness \in 0 .. 100 =>
            /\ \A v \in BOOLEAN :
                  /\ OnlyOn(lampOnSet_rgb(Cur, v), v)
                  /\ lampOnSet_rgb(Cur, v).currentEffect = 0
                  /\ OnlyOn(handleLamp_rgb(Cur, Arg(IF v THEN 1 ELSE 0)), v)
                  /\ handleLamp_rgb(Cur, Arg(IF v THEN 1 ELSE 0))
                        .currentEffect = 0
            /\ \A level \in BOOLEAN :
                  ButtonBranch(Cur, level, FALSE) = "short" =>
                     /\ OnlyOn(handleButton_rgb(Cur, level), ~lampOn)
                     /\ handleButton_rgb(Cur, level).currentEffect = 0)
    /\ [][cycle'.short = cycle.short + 1 =>
            /\ lampOn' = ~lampOn
            /\ UNCHANGED <<lampBrightness, lampHue, lampSaturation,
                           currentScene>>]_vars

\* A lamp at scene 3 (Relax) was switched off by a short press and is still
\* at scene 3 and brightness 40
C34_Witness ==
    /\ sketch = "prod" /\ pc = "loop" /\ cycle.short = 1
    /\ ~lampOn /\ currentScene = 3 /\ lampBrightness = SCENE_RELAX
    /\ store.scene = 3 /\ ~store.on /\ hk.sent = {"on"}

\* C35: on the production sketch, once setup has completed and after every
\* intent, targetBrightness is lampBrightness when the lamp is on and 0 when
\* it is off; a brightness edit while off leaves the target at 0.
C35_TargetFollowsOnAndBrightness ==
    sketch = "prod" /\ pc = "loop" =>
        targetBrightness = (IF lampOn THEN lampBrightness ELSE 0)

\* The brightness was edited to 55 while the lamp was off: the level is
\* stored and the target is still 0
C35_Witness ==
    /\ sketch = "prod" /\ pc = "loop" /\ ~lampOn
    /\ lampBrightness = 55 /\ targetBrightness = 0
    /\ store.exists /\ store.brightness = 55 /\ ~store.on

\* C36: on the production sketch, the level written to the pin is in
\* 0..100 and the duty in 0..PWM_RANGE in every state, also after a HomeKit
\* Brightness outside 0..100.
C36_OutputInRange ==
    sketch = "prod" =>
        /\ currentPWM \in 0 .. 100
        /\ targetBrightness \in 0 .. 100
        /\ lampPin \in 0 .. PWM_RANGE

\* A Brightness of -20, the only input giving level 0, reached a lit lamp:
\* the level was clamped to 0 and the fade has arrived at duty PWM_RANGE
C36_Witness ==
    /\ sketch = "prod" /\ pc = "loop" /\ lampOn
    /\ lampBrightness = 0 /\ targetBrightness = 0 /\ currentPWM = 0
    /\ ~isFading /\ lampPin = PWM_RANGE /\ store.brightness = 0 /\ store.on

-----------------------------------------------------------------------------
(* Basic sketch (ESP8266_HomeKit_Alternative.ino): an on/off state and a     *)
(* brightness, no fade, no scenes, no settings file.  lampPin holds the      *)
(* value that updateLamp passes to analogWrite, and PWM_RANGE after          *)
(* digitalWrite(LAMP_PIN, HIGH).                                             *)

updateLamp_basic(m) ==
    IF m.lampOn
    THEN LET pwmValue == map(m.lampBrightness, 0, 100, 0, 1023)
         IN [m EXCEPT !.lampPin = 1023 - pwmValue]
    ELSE [m EXCEPT !.lampPin = PWM_RANGE]

lampOnSet_basic(m, value) == updateLamp_basic([m EXCEPT !.lampOn = value])

lampBrightnessSet_basic(m, value) ==
    updateLamp_basic([m EXCEPT !.lampBrightness = value])

handleLamp_basic(m, a) ==
    IF a.has
    THEN [updateLamp_basic(Notify([m EXCEPT !.lampOn = (toInt(a) = 1)],
                                  "on", toInt(a) = 1))
            EXCEPT !.resp = 200]
    ELSE [m EXCEPT !.resp = 400]

handleBrightness_basic(m, a) ==
    IF a.has
    THEN LET b == constrain(toInt(a), 0, 100)
             m1 == Notify([m EXCEPT !.lampBrightness = b], "brightness", b)
         IN [(IF m1.lampOn THEN updateLamp_basic(m1) ELSE m1)
               EXCEPT !.resp = 200]
    ELSE [m EXCEPT !.resp = 400]

\* setup(): digitalWrite(LAMP_PIN, HIGH), then the servers are started
Setup_basic ==
    /\ sketch = "basic" /\ pc = "setup"
    /\ Commit([Cur EXCEPT !.lampPin = PWM_RANGE, !.pc = "loop"])
    /\ UNCHANGED observers
LampOnSet_basic ==
    \E v \in BOOLEAN :
        Do("basic", lampOnSet_basic(Cur, v)) /\ UNCHANGED observers
LampBrightnessSet_basic ==
    \E v \in BrightnessInputs :
        Do("basic", lampBrightnessSet_basic(Cur, v)) /\ UNCHANGED observers
HttpLamp_basic ==
    \E a \in Args({0, 1}) : Http("basic", handleLamp_basic(Cur, a))
HttpBrightness_basic ==
    \E a \in Args(BrightnessInputs) :
        Http("basic", handleBrightness_basic(Cur, a))

InitBasic ==
    /\ sketch = "basic"
    /\ InitMachine(Globals(NoFile))
    /\ InitObservers

NextBasic ==
    \/ PowerLoss
    \/ Setup_basic
    \/ LampOnSet_basic
    \/ LampBrightnessSet_basic
    \/ HttpLamp_basic
    \/ HttpBrightness_basic

SpecBasic == InitBasic /\ [][NextBasic]_vars

\* C37: on the basic sketch, every brightness from a HomeKit Brightness set
\* or from /brightness leaves lampBrightness in 0..100 and the value that
\* updateLamp passes to analogWrite in 0..1023.
C37_BasicOutputInRange ==
    sketch = "basic" =>
        /\ lampBrightness \in 0 .. 100
        /\ lampPin \in 0 .. PWM_RANGE

\* C38: on the RGB sketch, whatever id /effect?id= carries, currentEffect
\* is 0 (none), 1 (rainbow), 2 (fire) or 3 (breathing) in every reachable
\* state; an id outside 0..3 never leaves an effect that has no generator.
C38_EffectIdIsValid ==
    sketch = "rgb" => currentEffect \in 0 .. 3

\* C39: on the RGB sketch, the level of updateBreathing moves in steps of
\* 5 without wrapping past 255 or below 0 and sweeps the whole range: a
\* rising level turns around only once it has reached 250 or more, and a
\* falling level turns around only once it has come down to 5 or less.
C39_BreathingSweepsTheRange ==
    [][sketch = "rgb" /\ pc = "loop" /\ pc' = "loop"
         /\ breathLevel' # breathLevel =>
           /\ breathLevel' - breathLevel = breathDirection * 5
           /\ breathDirection = 1 /\ breathDirection' = -1 =>
                 breathLevel' >= 250
           /\ breathDirection = -1 /\ breathDirection' = 1 =>
                 breathLevel' <= 5]_vars

====
